---- MODULE Spec2Model ----
(***************************************************************************)
(* Model of the GWD image codec of ADVSYS3-ENGINE-TOOLS:                   *)
(*   src/png2gwd.py  (encoder: BitStreamWriter, encode_delta, write_line,  *)
(*                    write_count, pack, process_directory)                *)
(*   src/Gwd2Png.py  (decoder: BitStream, DELTA_TABLE, get_count,          *)
(*                    fill_line, read_metadata, unpack, save_image,        *)
(*                    process_directory)                                   *)
(* Python integers are unbounded, so buffers are modelled as Integers and  *)
(* the bitwise operators are computed on two's-complement semantics.       *)
(***************************************************************************)
EXTENDS Integers, Sequences, FiniteSets, TLC

VARIABLES
    pc,        \* position of the driver of the specification being run
    curr,      \* encode_delta / delta_table: current pixel
    prev,      \* encode_delta / delta_table: previous pixel
    sym,       \* symbol returned by encode_delta
    out,       \* pixel returned by delta_table
    wr,        \* BitStreamWriter: [buffer, buffer_size, stream]
    rd,        \* BitStream: [stream, pos, buffer, buffer_size]
    calls,     \* the write_bits calls made so far, <<value, num_bits>>
    results,   \* values returned by the reads made so far
    row,       \* a scanline of pixels handed to the encoder
    symbols,   \* encoded_line returned by delta_encode_line
    width,     \* width passed to fill_line
    line,      \* fill_line: the line being filled
    dst,       \* fill_line: the write cursor
    err,       \* name of the exception raised, "" when none
    files,     \* process_directory: the listing of input_dir
    fi,        \* process_directory: index of the file being converted
    meta,      \* the GwdMetaData returned by read_metadata
    output,    \* unpack: the output array, output[y][x] = channels of a pixel
    alpha_output, \* unpack: the alpha plane, alpha_output[y][x]
    y,         \* unpack / pack: row counter
    c,         \* unpack / pack: channel counter
    nlines,    \* scanlines fill_line has returned for the current file
    outdir,    \* the files that exist in output_dir
    log        \* per input file handled: how its conversion ended

vars == <<pc, curr, prev, sym, out, wr, rd, calls, results,
          row, symbols, width, line, dst, err,
          files, fi, meta, output, alpha_output, y, c, nlines, outdir, log>>

deltaVars == <<curr, prev, sym, out>>
bitVars == <<wr, rd, calls, results>>
lineVars == <<row, symbols, width, line, dst>>
dirVars == <<files, fi, meta, output, alpha_output, y, c, nlines, outdir, log>>

----------------------------------------------------------------------------
(* Python integer operators                                                *)

Pow2(n) == 2 ^ n

\* x << n
Shl(x, n) == x * Pow2(n)

\* x >> n  (arithmetic shift; \div rounds towards minus infinity)
Shr(x, n) == x \div Pow2(n)

\* x | y on unbounded two's-complement integers
RECURSIVE BitOr(_, _)
BitOr(a, b) ==
    IF a = 0 THEN b
    ELSE IF b = 0 THEN a
    ELSE IF a = -1 \/ b = -1 THEN -1
    ELSE 2 * BitOr(Shr(a, 1), Shr(b, 1)) + (IF a % 2 = 1 \/ b % 2 = 1 THEN 1 ELSE 0)

\* x & 0xFF
And255(x) == x % 256

----------------------------------------------------------------------------
(* DeltaPredictor                                                          *)

Byte == 0 .. 255

\* png2gwd.py encode_delta(curr, prev)
encode_delta(cur, prv) ==
    LET m == IF prv < 128 THEN prv ELSE 255 - prv
        v == IF 2 * m < cur THEN cur
             ELSE IF cur % 2 = 1 THEN m + ((cur + 1) \div 2)
             ELSE m - (cur \div 2)
    IN \* the test reads the folded prev, which is always < 128
       IF m < 128 THEN v ELSE 255 - v

\* delta_entry with the first test widened to 2 * prev <= j
delta_entry_le(j, i) ==
    LET m == IF i < 128 THEN i ELSE 255 - i
        v == IF 2 * m <= j THEN j
             ELSE IF j % 2 = 1 THEN m + ((j + 1) \div 2)
             ELSE m - (j \div 2)
    IN IF i < 128 THEN v ELSE 255 - v

\* one entry of the table built by the loop of Gwd2Png.py lines 98-110
delta_entry(j, i) ==
    LET m == IF i < 128 THEN i ELSE 255 - i
        v == IF 2 * m < j THEN j
             ELSE IF j % 2 = 1 THEN m + ((j + 1) \div 2)
             ELSE m - (j \div 2)
    IN IF i < 128 THEN v ELSE 255 - v

DELTA_TABLE == [j \in Byte |-> [i \in Byte |-> delta_entry(j, i)]]

\* Gwd2Png.py delta_table(curr, prev)
delta_table(cur, prv) == DELTA_TABLE[cur][prv]

----------------------------------------------------------------------------
(* BitStreamWriter (png2gwd.py) and BitStream (Gwd2Png.py)                 *)

\* BitStreamWriter.__init__
BitStreamWriter == [buffer |-> 0, buffer_size |-> 0, stream |-> <<>>]

\* the while loop of write_bits: emit every complete byte
RECURSIVE write_bytes(_)
write_bytes(w) ==
    IF w.buffer_size >= 8
    THEN write_bytes([w EXCEPT
             !.buffer_size = @ - 8,
             !.stream = Append(@, And255(Shr(w.buffer, w.buffer_size - 8)))])
    ELSE w

\* BitStreamWriter.write_bits(value, num_bits): value is or-ed in unmasked
write_bits(w, value, num_bits) ==
    write_bytes([w EXCEPT !.buffer = BitOr(Shl(@, num_bits), value),
                          !.buffer_size = @ + num_bits])

\* BitStreamWriter.flush()
flush(w) ==
    IF w.buffer_size > 0
    THEN [w EXCEPT !.stream = Append(@, And255(Shl(w.buffer, 8 - w.buffer_size))),
                   !.buffer = 0,
                   !.buffer_size = 0]
    ELSE w

\* BitStream.__init__ over a byte stream positioned at pos (0-based)
BitStream(data, pos) ==
    [data |-> data, pos |-> pos, buffer |-> 0, buffer_size |-> 0]

\* the refill loop of get_bits; eof is the raised EOFError
RECURSIVE read_bytes(_, _)
read_bytes(r, num_bits) ==
    IF r.buffer_size >= num_bits THEN [r |-> r, eof |-> FALSE]
    ELSE IF r.pos >= Len(r.data) THEN [r |-> r, eof |-> TRUE]
    ELSE read_bytes([r EXCEPT !.buffer = BitOr(Shl(r.buffer, 8), r.data[r.pos + 1]),
                              !.buffer_size = r.buffer_size + 8,
                              !.pos = r.pos + 1],
                    num_bits)

\* get_bits after the refill loop f: result, buffer_size and buffer updates
take_bits(f, num_bits) ==
    IF f.eof THEN [r |-> f.r, result |-> -1, eof |-> TRUE]
    ELSE [r |-> [f.r EXCEPT !.buffer_size = @ - num_bits,
                            !.buffer = @ % Pow2(f.r.buffer_size - num_bits)],
          result |-> Shr(f.r.buffer, f.r.buffer_size - num_bits),
          eof |-> FALSE]

\* BitStream.get_bits(num_bits)
get_bits(r, num_bits) == take_bits(read_bytes(r, num_bits), num_bits)

\* BitStream.get_next_bit()
get_next_bit(r) == get_bits(r, 1)

----------------------------------------------------------------------------
(* UniversalCountCode                                                      *)

\* the loop of write_count: least n >= 1 with count <= (1 << n) - 2
RECURSIVE count_width(_, _)
count_width(count, n) ==
    IF count > Pow2(n) - 2 THEN count_width(count, n + 1) ELSE n

\* the two write_bits calls of write_count, n being the width found by the loop
write_count_bits(w, count, n) ==
    write_bits(write_bits(w, n - 1, 3), count - (Pow2(n) - 2), n)

\* png2gwd.py write_count(bit_stream, count)
write_count(w, count) == write_count_bits(w, count, count_width(count, 1))

\* the loop of get_count: count bits up to and including the first 1 bit;
\* g is the bit just read
RECURSIVE count_prefix(_, _), count_prefix_bit(_, _)
count_prefix_bit(g, n) ==
    IF g.eof THEN [r |-> g.r, n |-> n, eof |-> TRUE]
    ELSE IF g.result = 0 THEN count_prefix(g.r, n + 1)
    ELSE [r |-> g.r, n |-> n, eof |-> FALSE]

count_prefix(r, n) == count_prefix_bit(get_next_bit(r), n)

\* the return expression of get_count: g is get_bits(n)
count_value(g, n) ==
    IF g.eof THEN g
    ELSE [g EXCEPT !.result = @ + Pow2(n) - 2]

\* get_count after the prefix loop q
count_suffix(q) ==
    IF q.eof THEN [r |-> q.r, result |-> -1, eof |-> TRUE]
    ELSE count_value(get_bits(q.r, q.n), q.n)

\* Gwd2Png.py get_count(bit_stream)
get_count(r) == count_suffix(count_prefix(r, 1))

----------------------------------------------------------------------------
(* ScanlineCodec                                                           *)

\* png2gwd.py delta_encode_line(line): the predictor context is the original pixel
\* line 48 reads line[0], which raises IndexError on an empty row
delta_encode_line(l) ==
    IF l = <<>> THEN [line |-> <<>>, err |-> "IndexError"]
    ELSE [line |-> [i \in 1 .. Len(l) |->
                       IF i = 1 THEN l[1] ELSE encode_delta(l[i], l[i - 1])],
          err |-> ""]

\* png2gwd.py get_run_length(line, pos), pos 0-based; the loop from length on
RECURSIVE run_length(_, _, _)
run_length(l, pos, length) ==
    IF pos + length < Len(l) /\ l[pos + 1] = l[pos + length + 1] /\ length < 255
    THEN run_length(l, pos, length + 1)
    ELSE length

get_run_length(l, pos) == run_length(l, pos, 1)

\* the loop of get_bit_length
RECURSIVE bit_count(_, _)
bit_count(value, length) ==
    IF value > 0 THEN bit_count(Shr(value, 1), length + 1) ELSE length

\* png2gwd.py get_bit_length(value): -1 for value 0, 0 for value 1
get_bit_length(value) == bit_count(value, 0) - 1

\* write_line, else branch: the width code, then the symbol in bit_length + 1 bits
write_literal(w, value, bit_length) ==
    write_bits(write_bits(w, bit_length, 3), value, bit_length + 1)

\* write_line, one iteration of the loop at cursor d, count = get_run_length(line, d)
write_token(w, l, d, count) ==
    IF count > 1
    THEN write_count(write_bits(w, 0, 3), count - 1)
    ELSE write_literal(w, l[d + 1], get_bit_length(l[d + 1]))

\* png2gwd.py write_line(bit_stream, line), the loop from cursor d on
RECURSIVE write_line_from(_, _, _), write_line_step(_, _, _, _)
write_line_step(w, l, d, count) ==
    write_line_from(write_token(w, l, d, count), l,
                    IF count > 1 THEN d + count ELSE d + 1)

write_line_from(w, l, d) ==
    IF d < Len(l) THEN write_line_step(w, l, d, get_run_length(l, d)) ELSE w

write_line(w, l) == write_line_from(w, l, 0)

\* fill_line, literal branch: for _ in range(count): line[dst] = get_bits(length + 1)
\* g is the value just read; a store at dst >= width raises IndexError
RECURSIVE literal_run(_, _, _, _, _, _), literal_store(_, _, _, _, _, _)
literal_store(g, l, d, w, length, count) ==
    IF g.eof THEN [r |-> g.r, line |-> l, dst |-> d, err |-> "EOFError"]
    ELSE IF d >= w THEN [r |-> g.r, line |-> l, dst |-> d, err |-> "IndexError"]
    ELSE literal_run(g.r, [l EXCEPT ![d + 1] = g.result], d + 1, w, length, count - 1)

literal_run(r, l, d, w, length, count) ==
    IF count = 0 THEN [r |-> r, line |-> l, dst |-> d, err |-> ""]
    ELSE literal_store(get_bits(r, length + 1), l, d, w, length, count)

\* fill_line, loop body after count = get_count(bit_stream) + 1 (cnt is get_count)
fill_token_run(cnt, length, l, d, w) ==
    IF cnt.eof THEN [r |-> cnt.r, line |-> l, dst |-> d, err |-> "EOFError"]
    ELSE IF length # 0 THEN literal_run(cnt.r, l, d, w, length, cnt.result + 1)
    ELSE [r |-> cnt.r, line |-> l, dst |-> d + cnt.result + 1, err |-> ""]

\* fill_line, loop body after length = get_bits(3) (g is get_bits(3))
fill_token_count(g, l, d, w) ==
    IF g.eof THEN [r |-> g.r, line |-> l, dst |-> d, err |-> "EOFError"]
    ELSE fill_token_run(get_count(g.r), g.result, l, d, w)

\* fill_line, one iteration of the while loop: one token
fill_token(r, l, d, w) == fill_token_count(get_bits(r, 3), l, d, w)

\* fill_line, the delta pass from index i (0-based) on, left to right
RECURSIVE delta_pass(_, _)
delta_pass(l, i) ==
    IF i < Len(l)
    THEN delta_pass([l EXCEPT ![i + 1] = delta_table(l[i + 1], l[i])], i + 1)
    ELSE l

\* fill_line, the while loop; t is the state after a token
RECURSIVE fill_tokens(_, _, _, _), fill_tokens_next(_, _)
fill_tokens_next(t, w) ==
    IF t.err # "" THEN t ELSE fill_tokens(t.r, t.line, t.dst, w)

fill_tokens(r, l, d, w) ==
    IF d < w THEN fill_tokens_next(fill_token(r, l, d, w), w)
    ELSE [r |-> r, line |-> l, dst |-> d, err |-> ""]

\* fill_line after the while loop: the delta pass, unless an exception was raised
fill_line_delta(t) ==
    IF t.err # "" THEN t ELSE [t EXCEPT !.line = delta_pass(@, 1)]

\* Gwd2Png.py fill_line(bit_stream, width)
fill_line(r, w) == fill_line_delta(fill_tokens(r, [i \in 1 .. w |-> 0], 0, w))

----------------------------------------------------------------------------
(* MetadataCodec                                                           *)

\* the value None returned by read_metadata
None == [none |-> TRUE]

\* stream.read(n) at position pos: at most n bytes, fewer at the end of the file
read(data, pos, n) ==
    SubSeq(data, pos + 1, IF pos + n <= Len(data) THEN pos + n ELSE Len(data))

\* read_metadata after header = stream.read(12); decode('ascii') raises
\* UnicodeDecodeError on a byte above 0x7F
parse_header(header, pos) ==
    IF Len(header) # 12
    THEN [meta |-> None, pos |-> pos + Len(header), err |-> ""]
    ELSE IF \E i \in 5 .. 7 : header[i] >= 128
    THEN [meta |-> None, pos |-> pos + 12, err |-> "UnicodeDecodeError"]
    ELSE IF SubSeq(header, 5, 7) # <<71, 87, 68>>
    THEN [meta |-> None, pos |-> pos + 12, err |-> ""]
    ELSE [meta |-> [width |-> 256 * header[8] + header[9],
                    height |-> 256 * header[10] + header[11],
                    bpp |-> header[12],
                    data_size |-> header[1] + 256 * header[2] + 65536 * header[3]
                                  + 16777216 * header[4]],
          pos |-> pos + 12, err |-> ""]

\* Gwd2Png.py read_metadata(stream), the stream being at position pos
read_metadata(data, pos) == parse_header(read(data, pos, 12), pos)

\* png2gwd.py write_metadata: the 12 header bytes; struct.pack raises struct.error
\* when width or height does not fit 'H' or bpp does not fit 'B'
write_metadata(w, h, bpp, data_size) ==
    IF \/ data_size < 0 \/ data_size \div 65536 > 65535    \* struct.pack('<I', ...)
       \/ w < 0 \/ w > 65535 \/ h < 0 \/ h > 65535         \* 'H', 'H'
       \/ bpp < 0 \/ bpp > 255                             \* 'B'
    THEN [bytes |-> <<>>, err |-> "struct.error"]
    ELSE [bytes |-> <<data_size % 256, (data_size \div 256) % 256,
                      (data_size \div 65536) % 256, (data_size \div 16777216) % 256,
                      71, 87, 68,
                      w \div 256, w % 256, h \div 256, h % 256, bpp>>,
          err |-> ""]

----------------------------------------------------------------------------
(* GwdDecoder                                                              *)

\* np.zeros((height, width, channels))
zeros3(h, w, channels) == [yy \in 1 .. h |-> [xx \in 1 .. w |-> [k \in 1 .. channels |-> 0]]]

\* np.zeros((height, width))
zeros2(h, w) == [yy \in 1 .. h |-> [xx \in 1 .. w |-> 0]]

\* unpack: the channels of the output array
channels_of(bpp) == IF bpp = 24 THEN 3 ELSE 1

\* unpack: the scanlines read per row (the else branch loops over range(3))
lines_per_row(bpp) == IF bpp = 8 THEN 1 ELSE 3

\* output[y, :, c] = line
store_line(o, yy, cc, l) ==
    [o EXCEPT ![yy + 1] = [xx \in 1 .. Len(l) |-> [@[xx] EXCEPT ![cc + 1] = l[xx]]]]

\* invert_alpha without the inversion
invert_alpha_id(a) == a

\* alpha_output = 255 - alpha_output
invert_alpha(a) == [yy \in DOMAIN a |-> [xx \in DOMAIN a[yy] |-> 255 - a[yy][xx]]]

\* np.dstack((output, alpha_output))
dstack(o, a) ==
    [yy \in DOMAIN o |-> [xx \in DOMAIN o[yy] |-> Append(o[yy][xx], a[yy][xx])]]

\* unpack: stream.seek(4 + meta.data_size); stream.read(1) == b'\x01'
alpha_flag(data, m) == read(data, 4 + m.data_size, 1) = <<1>>

\* unpack: the test on alpha_meta
alpha_matches(am, m) ==
    am # None /\ am.bpp = 8 /\ am.width = m.width /\ am.height = m.height

\* save_image: what the bpp dispatch does with the array
\* (8: reshape to one plane, 24: reverse the channels, 32: pick channels 2,1,0,3)
save_image(channels, w, h, bpp) ==
    IF bpp = 8 THEN [err |-> "", mode |-> "L"]
    ELSE IF bpp = 24 THEN [err |-> "", mode |-> "RGB"]
    ELSE IF bpp = 32
    THEN IF channels < 4 THEN [err |-> "IndexError", mode |-> ""]
         ELSE [err |-> "", mode |-> "RGBA"]
    ELSE [err |-> "ValueError", mode |-> ""]

----------------------------------------------------------------------------
(* GwdEncoder                                                              *)

\* pack: line = image_data[y, :, c]; the explored images are a base colour pix
\* plus step per column
image_line(img, yy, cc) ==
    [xx \in 1 .. img.width |-> (img.pix[cc + 1] + img.step * (xx - 1)) % 256]

\* pack, loop body: encoded_line = delta_encode_line(line); write_line(...)
pack_line(w, img, yy, cc) ==
    IF delta_encode_line(image_line(img, yy, cc)).err # ""
    THEN [w |-> w, err |-> delta_encode_line(image_line(img, yy, cc)).err]
    ELSE [w |-> write_line(w, delta_encode_line(image_line(img, yy, cc)).line), err |-> ""]

\* the file output_file holds data: open(output_file, 'wb') and the writes to it
put_file(dir, name, data) ==
    {f \in dir : f.name # name} \cup {[name |-> name, ext |-> "gwd", data |-> data]}

----------------------------------------------------------------------------
(* Bounds of the explored inputs                                           *)

MaxCalls == 3          \* write_bits calls made on one writer
MaxNumBits == 4        \* largest num_bits passed to write_bits
MaxRun == 255          \* cap of get_run_length: write_count gets at most MaxRun - 1

MaxWidth == 2          \* widest scanline explored
MaxBytes == 3          \* longest hand-made byte stream given to fill_line

\* bytes of the hand-made streams: 00010... zero run of 1, 00011... zero run of 2,
\* 0011011. one 2-bit literal, 100001.. and 111..., 000... truncated tokens
FillBytes == {0, 16, 24, 54, 132, 255}

\* all sequences over S of length lo .. hi
SeqsOf(S, lo, hi) == UNION {[1 .. n -> S] : n \in lo .. hi}

MaxHeight == 1         \* tallest image explored

\* bytes of the scanline payloads of the explored GWD files
\* (00010000 10000100 is three zero runs of 1, 00011000 11000110 three of 2)
PayloadBytes == {16, 24, 54, 132, 198}

\* payloads of the alpha sub-image: none, a zero run of 1, a 2-bit literal 3
AlphaPayloads == {<<>>, <<16>>, <<54>>}

\* headers put after the flag byte 0x01: matching, wrong bpp, wrong width, wrong
\* height, wrong magic, a magic byte above 0x7F, and a header cut short; their
\* data_size field, which unpack never reads, is 01 01 01 01 so that a scanline
\* read running into the header meets no zero prefix longer than 17 bits
AlphaHeaders(w, h) ==
    <<write_metadata(w, h, 8, 16843009).bytes,
      write_metadata(w, h, 24, 16843009).bytes,
      write_metadata(w + 1, h, 8, 16843009).bytes,
      write_metadata(w, h + 1, 8, 16843009).bytes,
      [write_metadata(w, h, 8, 16843009).bytes EXCEPT ![7] = 88],
      [write_metadata(w, h, 8, 16843009).bytes EXCEPT ![5] = 200],
      SubSeq(write_metadata(w, h, 8, 16843009).bytes, 1, 11)>>

\* what follows the primary payload: nothing (flag -1), a flag byte other than
\* 0x01, or the flag 0x01 with one of the headers and an alpha payload
TailKinds ==
    {[flag |-> f, hdr |-> 1, ap |-> <<>>] : f \in {-1, 0, 2}}
    \cup {[flag |-> 1, hdr |-> k, ap |-> ap] :
            k \in DOMAIN AlphaHeaders(1, 1), ap \in AlphaPayloads}

\* the bytes of a tail for an image of w x h
Tails(w, h, t) ==
    IF t.flag = -1 THEN <<>>
    ELSE IF t.flag # 1 THEN <<t.flag>>
    ELSE <<1>> \o AlphaHeaders(w, h)[t.hdr] \o t.ap

\* a GWD file: header, payload, tail; data_size either puts the flag at the
\* first payload byte (far = 0) or right after the payload (far = 1)
GwdFile(n, w, h, bpp, pl, far, t) ==
    [name |-> n, ext |-> "gwd",
     data |-> write_metadata(w, h, bpp, 8 + far * Len(pl)).bytes \o pl \o Tails(w, h, t)]

\* the tail kinds: no tail, and a well-formed alpha sub-image
NoTail == [flag |-> -1, hdr |-> 1, ap |-> <<>>]
GoodTail == [flag |-> 1, hdr |-> 1, ap |-> <<54>>]

\* directory entries for listings of two files: a file that is no GWD file, a
\* truncated header, a wrong magic, a magic above 0x7F, 8bpp and 16bpp images
SmallFiles(n) ==
    {[name |-> n, ext |-> "txt", data |-> <<1, 2, 3>>],
     [name |-> n, ext |-> "gwd", data |-> <<8, 0, 0, 0, 71>>],
     [name |-> n, ext |-> "gwd", data |-> [write_metadata(1, 1, 8, 8).bytes EXCEPT ![6] = 73]],
     [name |-> n, ext |-> "gwd", data |-> [write_metadata(1, 1, 8, 8).bytes EXCEPT ![6] = 255]],
     [name |-> n, ext |-> "gwd", data |-> write_metadata(1, 1, 8, 8).bytes \o <<54>>],
     [name |-> n, ext |-> "gwd", data |-> write_metadata(1, 1, 8, 8).bytes],
     [name |-> n, ext |-> "gwd", data |-> write_metadata(1, 1, 16, 8).bytes \o <<16, 132>>]}

\* directory entries of the encoder: a file that is no PNG, a PNG that cannot be
\* opened, small images, and images whose width or height does not fit 16 bits
PngFiles(n) ==
    {[name |-> n, ext |-> "txt", valid |-> FALSE, width |-> 0, height |-> 0,
      pix |-> <<0, 0, 0>>, step |-> 0],
     [name |-> n, ext |-> "png", valid |-> FALSE, width |-> 0, height |-> 0,
      pix |-> <<0, 0, 0>>, step |-> 0],
     [name |-> n, ext |-> "png", valid |-> TRUE, width |-> 65536, height |-> 1,
      pix |-> <<0, 0, 0>>, step |-> 0],
     [name |-> n, ext |-> "png", valid |-> TRUE, width |-> 1, height |-> 65536,
      pix |-> <<0, 0, 0>>, step |-> 0],
     [name |-> n, ext |-> "png", valid |-> TRUE, width |-> 1, height |-> 1,
      pix |-> <<5, 100, 127>>, step |-> 0]}
    \cup {[name |-> n, ext |-> "png", valid |-> TRUE, width |-> w, height |-> 1,
           pix |-> px, step |-> st] :
            w \in 1 .. 2, px \in {<<0, 0, 0>>, <<1, 2, 3>>, <<2, 0, 1>>}, st \in 0 .. 1}

\* bytes tried at offsets 4..6 of a header: the magic, other ASCII, above 0x7F
MagicBytes == {0, 68, 71, 87, 127, 128, 255}

\* lengths of the inputs given to read_metadata
HeaderLengths == {0, 5, 11, 12, 13}

\* values passed to write_bits: in range, wider than num_bits, and negative
BitValues == {-2, -1, 0, 1, 2, 5, 9, 16}

idleDelta == curr = 0 /\ prev = 0 /\ sym = -1 /\ out = -1
idleBits == /\ wr = BitStreamWriter
            /\ rd = BitStream(<<>>, 0)
            /\ calls = <<>>
            /\ results = <<>>
idleDir == /\ files = <<>>
           /\ fi = 0
           /\ meta = [none |-> TRUE]
           /\ output = <<>>
           /\ alpha_output = <<>>
           /\ y = 0
           /\ c = 0
           /\ nlines = 0
           /\ outdir = {}
           /\ log = <<>>
idleLine == /\ row = <<>>
            /\ symbols = <<>>
            /\ width = 0
            /\ line = <<>>
            /\ dst = 0

----------------------------------------------------------------------------
(* Delta predictor: encode one pixel, decode one symbol                    *)

InitDelta ==
    /\ pc = "delta"
    /\ curr \in Byte
    /\ prev \in Byte
    /\ sym = -1
    /\ out = -1
    /\ idleBits
    /\ idleLine
    /\ idleDir
    /\ err = ""

\* delta_encode_line, loop body: encoded_line[i] = encode_delta(line[i], line[i-1])
EncodeDelta ==
    /\ pc = "delta"
    /\ sym' = encode_delta(curr, prev)
    /\ pc' = "encoded"
    /\ UNCHANGED <<curr, prev, out, bitVars, lineVars, err, dirVars>>

\* fill_line, second loop body, applied to the symbol the encoder produced
DecodeDelta ==
    /\ pc = "encoded"
    /\ out' = delta_table(sym, prev)
    /\ pc' = "decoded"
    /\ UNCHANGED <<curr, prev, sym, bitVars, lineVars, err, dirVars>>

\* fill_line, second loop body, applied to an arbitrary symbol (curr holds it)
LookupDelta ==
    /\ pc = "delta"
    /\ out' = delta_table(curr, prev)
    /\ pc' = "looked_up"
    /\ UNCHANGED <<curr, prev, sym, bitVars, lineVars, err, dirVars>>

NextDelta == EncodeDelta \/ DecodeDelta \/ LookupDelta

SpecDelta == InitDelta /\ [][NextDelta]_vars

----------------------------------------------------------------------------
(* Bit writer followed by bit reader                                       *)

InitBits ==
    /\ pc = "writing"
    /\ idleDelta
    /\ idleBits
    /\ idleLine
    /\ idleDir
    /\ err = ""

WriteBits ==
    /\ pc = "writing"
    /\ Len(calls) < MaxCalls
    /\ \E value \in BitValues, num_bits \in 0 .. MaxNumBits :
          /\ wr' = write_bits(wr, value, num_bits)
          /\ calls' = Append(calls, <<value, num_bits>>)
    /\ UNCHANGED <<pc, deltaVars, rd, results, lineVars, err, dirVars>>

\* flush, then the written bytes are handed to a BitStream
Flush ==
    /\ pc = "writing"
    /\ wr' = flush(wr)
    /\ rd' = BitStream(wr'.stream, 0)
    /\ pc' = "reading"
    /\ UNCHANGED <<deltaVars, calls, results, lineVars, err, dirVars>>

\* get_bits with the num_bits of the matching write_bits call
GetBits ==
    /\ pc = "reading"
    /\ Len(results) < Len(calls)
    /\ LET g == get_bits(rd, calls[Len(results) + 1][2])
       IN /\ rd' = g.r
          /\ IF g.eof
             THEN /\ err' = "EOFError"
                  /\ pc' = "error"
                  /\ UNCHANGED results
             ELSE /\ results' = Append(results, g.result)
                  /\ UNCHANGED <<pc, err>>
    /\ UNCHANGED <<deltaVars, wr, calls, lineVars, dirVars>>

NextBits == WriteBits \/ Flush \/ GetBits

SpecBits == InitBits /\ [][NextBits]_vars

----------------------------------------------------------------------------
(* Count code: write_count, flush, get_count                               *)

\* curr holds the count handed to write_count
InitCount ==
    /\ pc = "count"
    /\ curr \in 0 .. (MaxRun - 1)
    /\ prev = 0 /\ sym = -1 /\ out = -1
    /\ idleBits
    /\ idleLine
    /\ idleDir
    /\ err = ""

\* calls records the bits written: 3 for n - 1, n for the offset
WriteCount ==
    /\ pc = "count"
    /\ wr' = write_count(wr, curr)
    /\ calls' = <<<<count_width(curr, 1) - 1, 3>>,
                  <<curr - (Pow2(count_width(curr, 1)) - 2), count_width(curr, 1)>>>>
    /\ pc' = "count_written"
    /\ UNCHANGED <<deltaVars, rd, results, lineVars, err, dirVars>>

FlushCount ==
    /\ pc = "count_written"
    /\ wr' = flush(wr)
    /\ rd' = BitStream(wr'.stream, 0)
    /\ pc' = "count_flushed"
    /\ UNCHANGED <<deltaVars, calls, results, lineVars, err, dirVars>>

GetCount ==
    /\ pc = "count_flushed"
    /\ LET g == get_count(rd)
       IN /\ rd' = g.r
          /\ IF g.eof
             THEN /\ err' = "EOFError"
                  /\ pc' = "count_error"
                  /\ UNCHANGED results
             ELSE /\ results' = <<g.result>>
                  /\ pc' = "count_read"
                  /\ UNCHANGED err
    /\ UNCHANGED <<deltaVars, wr, calls, lineVars, dirVars>>

NextCount == WriteCount \/ FlushCount \/ GetCount

SpecCount == InitCount /\ [][NextCount]_vars

----------------------------------------------------------------------------
(* One scanline through the encoder and then the decoder                   *)

InitLine ==
    /\ pc = "line"
    /\ idleDelta
    /\ idleBits
    /\ row \in SeqsOf(Byte, 1, MaxWidth)
    /\ symbols = <<>>
    /\ width = 0
    /\ line = <<>>
    /\ dst = 0
    /\ idleDir
    /\ err = ""

\* pack, loop body: encoded_line = delta_encode_line(line)
DeltaEncodeLine ==
    /\ pc = "line"
    /\ IF delta_encode_line(row).err # ""
       THEN /\ err' = delta_encode_line(row).err
            /\ pc' = "line_error"
            /\ UNCHANGED symbols
       ELSE /\ symbols' = delta_encode_line(row).line
            /\ pc' = "symbols"
            /\ UNCHANGED err
    /\ UNCHANGED <<deltaVars, bitVars, row, width, line, dst, dirVars>>

\* pack, loop body and end: write_line(bit_stream, encoded_line); bit_stream.flush()
\* the bytes written are then opened by the decoder for fill_line(width)
WriteLine ==
    /\ pc = "symbols"
    /\ wr' = flush(write_line(wr, symbols))
    /\ rd' = BitStream(wr'.stream, 0)
    /\ width' = Len(row)
    /\ line' = [i \in 1 .. Len(row) |-> 0]
    /\ dst' = 0
    /\ pc' = "filling"
    /\ UNCHANGED <<deltaVars, calls, results, row, symbols, err, dirVars>>

\* fill_line: one iteration of the while loop
FillToken ==
    /\ pc = "filling"
    /\ dst < width
    /\ LET t == fill_token(rd, line, dst, width)
       IN /\ rd' = t.r
          /\ line' = t.line
          /\ dst' = t.dst
          /\ err' = t.err
          /\ pc' = IF t.err # "" THEN "fill_error" ELSE "filling"
    /\ UNCHANGED <<deltaVars, wr, calls, results, row, symbols, width, dirVars>>

\* fill_line: the loop exits, the delta pass runs and the line is returned
FillReturn ==
    /\ pc = "filling"
    /\ dst >= width
    /\ line' = delta_pass(line, 1)
    /\ pc' = "filled"
    /\ UNCHANGED <<deltaVars, bitVars, row, symbols, width, dst, err, dirVars>>

NextLine == DeltaEncodeLine \/ WriteLine \/ FillToken \/ FillReturn

SpecLine == InitLine /\ [][NextLine]_vars

----------------------------------------------------------------------------
(* fill_line on an arbitrary byte stream                                   *)

InitFill ==
    /\ pc = "filling"
    /\ idleDelta
    /\ wr = BitStreamWriter
    /\ calls = <<>>
    /\ results = <<>>
    /\ \E data \in SeqsOf(FillBytes, 0, MaxBytes) : rd = BitStream(data, 0)
    /\ row = <<>>
    /\ symbols = <<>>
    /\ width \in 1 .. MaxWidth
    /\ line = [i \in 1 .. width |-> 0]
    /\ dst = 0
    /\ idleDir
    /\ err = ""

NextFill == FillToken \/ FillReturn

SpecFill == InitFill /\ [][NextFill]_vars

----------------------------------------------------------------------------
(* read_metadata on an arbitrary input                                     *)

\* rd holds the stream: up to 13 bytes with any of MagicBytes at offsets 4..6
InitMeta ==
    /\ pc = "meta"
    /\ idleDelta
    /\ wr = BitStreamWriter
    /\ calls = <<>>
    /\ results = <<>>
    /\ \E m \in [5 .. 7 -> MagicBytes], n \in HeaderLengths :
          rd = BitStream(SubSeq([write_metadata(2, 1, 8, 9).bytes EXCEPT
                                    ![5] = m[5], ![6] = m[6], ![7] = m[7]] \o <<16>>,
                                1, n), 0)
    /\ idleLine
    /\ idleDir
    /\ err = ""

ReadMetadata ==
    /\ pc = "meta"
    /\ LET m == read_metadata(rd.data, rd.pos)
       IN /\ meta' = m.meta
          /\ err' = m.err
          /\ rd' = [rd EXCEPT !.pos = m.pos]
          /\ pc' = IF m.err # "" THEN "meta_error" ELSE "meta_read"
    /\ UNCHANGED <<deltaVars, wr, calls, results, lineVars, files, fi, output,
                   alpha_output, y, c, nlines, outdir, log>>

NextMeta == ReadMetadata

SpecMeta == InitMeta /\ [][NextMeta]_vars

----------------------------------------------------------------------------
(* Gwd2Png.py process_directory: read_metadata, unpack, save_image         *)

InitDecode ==
    /\ pc = "dir"
    /\ idleDelta
    /\ idleBits
    /\ idleLine
    /\ \/ \E f \in SmallFiles("a"), g \in SmallFiles("b") : files = <<f, g>>
       \/ \E w \in 1 .. MaxWidth, h \in 1 .. MaxHeight,
             pl \in SeqsOf(PayloadBytes, 0, MaxBytes) :
             \* 8, 16 and 32bpp without a tail
             \/ \E bpp \in {8, 16, 32} : files = <<GwdFile("a", w, h, bpp, pl, 0, NoTail)>>
             \* 24bpp with every tail after the payload
             \/ \E t \in TailKinds : files = <<GwdFile("a", w, h, 24, pl, 1, t)>>
             \* 24bpp with the flag read at the first payload byte
             \/ \E t \in {NoTail, GoodTail} : files = <<GwdFile("a", w, h, 24, pl, 0, t)>>
    /\ fi = 1
    /\ meta = None
    /\ output = <<>>
    /\ alpha_output = <<>>
    /\ y = 0
    /\ c = 0
    /\ nlines = 0
    /\ outdir = {}
    /\ log = <<>>
    /\ err = ""

\* the conversion of files[fi] ends: with "converted", "skipped", "invalid", or
\* in the except clause with the exception's name; the loop goes on
EndFile(result, n) ==
    /\ log' = Append(log, [result |-> result, lines |-> n])
    /\ fi' = fi + 1
    /\ pc' = "dir"

\* loop head: the endswith test, open, read_metadata, and the start of unpack
DecOpen ==
    /\ pc = "dir"
    /\ fi <= Len(files)
    /\ LET m == read_metadata(files[fi].data, 0)
       IN IF files[fi].ext # "gwd"
          THEN /\ EndFile("skipped", 0)
               /\ UNCHANGED <<rd, meta, output, y, c, nlines>>
          ELSE IF m.err # ""
          THEN /\ EndFile(m.err, 0)
               /\ rd' = BitStream(files[fi].data, m.pos)
               /\ UNCHANGED <<meta, output, y, c, nlines>>
          ELSE IF m.meta = None
          THEN /\ EndFile("invalid", 0)
               /\ rd' = BitStream(files[fi].data, m.pos)
               /\ meta' = None
               /\ UNCHANGED <<output, y, c, nlines>>
          ELSE /\ meta' = m.meta
               /\ output' = zeros3(m.meta.height, m.meta.width, channels_of(m.meta.bpp))
               /\ rd' = BitStream(files[fi].data, 12)
               /\ y' = 0
               /\ c' = 0
               /\ nlines' = 0
               /\ pc' = "primary"
               /\ UNCHANGED <<fi, log>>
    /\ UNCHANGED <<deltaVars, wr, calls, results, lineVars, err, files,
                   alpha_output, outdir>>

\* unpack: one pass of the scanline loops, line = fill_line(...); output[y, :, c] = line
\* a store into channel c of an array with fewer channels raises IndexError
DecLine ==
    /\ pc = "primary"
    /\ y < meta.height
    /\ LET t == fill_line(rd, meta.width)
       IN /\ rd' = t.r
          /\ IF t.err # ""
             THEN /\ EndFile(t.err, nlines)
                  /\ UNCHANGED <<output, y, c, nlines>>
             ELSE IF c >= channels_of(meta.bpp)
             THEN /\ EndFile("IndexError", nlines + 1)
                  /\ nlines' = nlines + 1
                  /\ UNCHANGED <<output, y, c>>
             ELSE /\ output' = store_line(output, y, c, t.line)
                  /\ nlines' = nlines + 1
                  /\ c' = IF c + 1 < lines_per_row(meta.bpp) THEN c + 1 ELSE 0
                  /\ y' = IF c + 1 < lines_per_row(meta.bpp) THEN y ELSE y + 1
                  /\ UNCHANGED <<pc, fi, log>>
    /\ UNCHANGED <<deltaVars, wr, calls, results, lineVars, err, files, meta,
                   alpha_output, outdir>>

\* unpack after the scanline loops: for 24bpp the flag byte at 4 + data_size and,
\* when it is 0x01, the nested header
DecFlag ==
    /\ pc = "primary"
    /\ y = meta.height
    /\ LET data == files[fi].data
           am == read_metadata(data, 4 + meta.data_size + 1)
       IN IF meta.bpp # 24
          THEN /\ pc' = "unpacked"
               /\ UNCHANGED <<rd, alpha_output, y, fi, log>>
          ELSE IF ~alpha_flag(data, meta)
          THEN /\ pc' = "unpacked"
               /\ rd' = [rd EXCEPT !.pos = 4 + meta.data_size
                                           + Len(read(data, 4 + meta.data_size, 1))]
               /\ UNCHANGED <<alpha_output, y, fi, log>>
          ELSE IF am.err # ""
          THEN /\ EndFile(am.err, nlines)
               /\ rd' = [rd EXCEPT !.pos = am.pos]
               /\ UNCHANGED <<alpha_output, y>>
          ELSE IF alpha_matches(am.meta, meta)
          THEN /\ pc' = "alpha"
               /\ rd' = BitStream(data, am.pos)
               /\ alpha_output' = zeros2(meta.height, meta.width)
               /\ y' = 0
               /\ UNCHANGED <<fi, log>>
          ELSE /\ pc' = "unpacked"
               /\ rd' = [rd EXCEPT !.pos = am.pos]
               /\ UNCHANGED <<alpha_output, y, fi, log>>
    /\ UNCHANGED <<deltaVars, wr, calls, results, lineVars, err, files, meta,
                   output, c, nlines, outdir>>

\* unpack: one pass of the alpha loop, alpha_output[y, :] = fill_line(...)
DecAlphaLine ==
    /\ pc = "alpha"
    /\ y < meta.height
    /\ LET t == fill_line(rd, meta.width)
       IN /\ rd' = t.r
          /\ IF t.err # ""
             THEN /\ EndFile(t.err, nlines)
                  /\ UNCHANGED <<alpha_output, y, nlines>>
             ELSE /\ alpha_output' = [alpha_output EXCEPT ![y + 1] = t.line]
                  /\ y' = y + 1
                  /\ nlines' = nlines + 1
                  /\ UNCHANGED <<pc, fi, log>>
    /\ UNCHANGED <<deltaVars, wr, calls, results, lineVars, err, files, meta,
                   output, c, outdir>>

\* unpack after the alpha loop: invert the plane and stack it as fourth channel
DecAlphaMerge ==
    /\ pc = "alpha"
    /\ y = meta.height
    /\ alpha_output' = invert_alpha(alpha_output)
    /\ output' = dstack(output, invert_alpha(alpha_output))
    /\ pc' = "unpacked"
    /\ UNCHANGED <<deltaVars, bitVars, lineVars, err, files, fi, meta, y, c,
                   nlines, outdir, log>>

\* unpack has returned: save_image, then the next file
DecSave ==
    /\ pc = "unpacked"
    /\ LET sv == save_image(Len(output[1][1]), meta.width, meta.height, meta.bpp)
       IN IF sv.err # ""
          THEN /\ EndFile(sv.err, nlines)
               /\ UNCHANGED outdir
          ELSE /\ EndFile("converted", nlines)
               /\ outdir' = outdir \cup {[name |-> files[fi].name, ext |-> "png",
                                          mode |-> sv.mode,
                                          channels |-> Len(output[1][1])]}
    /\ UNCHANGED <<deltaVars, bitVars, lineVars, err, files, meta, output,
                   alpha_output, y, c, nlines>>

NextDecode == DecOpen \/ DecLine \/ DecFlag \/ DecAlphaLine \/ DecAlphaMerge \/ DecSave

SpecDecode == InitDecode /\ [][NextDecode]_vars

----------------------------------------------------------------------------
(* png2gwd.py process_directory: Image.open, write_metadata, pack          *)

InitEncode ==
    /\ pc = "dir"
    /\ idleDelta
    /\ idleBits
    /\ idleLine
    /\ files \in {<<f>> : f \in PngFiles("a")}
                 \cup {<<f, g>> : f \in PngFiles("a"), g \in PngFiles("b")}
    /\ fi = 1
    /\ meta = None
    /\ output = <<>>
    /\ alpha_output = <<>>
    /\ y = 0
    /\ c = 0
    /\ nlines = 0
    /\ outdir = {}
    /\ log = <<>>
    /\ err = ""

\* loop head: the endswith test, Image.open and convert, then
\* open(output_file, 'wb'), which creates the file
EncOpen ==
    /\ pc = "dir"
    /\ fi <= Len(files)
    /\ IF files[fi].ext # "png"
       THEN /\ EndFile("skipped", 0)
            /\ UNCHANGED <<meta, outdir>>
       ELSE IF ~files[fi].valid
       THEN /\ EndFile("UnidentifiedImageError", 0)
            /\ UNCHANGED <<meta, outdir>>
       ELSE /\ meta' = [width |-> files[fi].width, height |-> files[fi].height,
                        bpp |-> 24,
                        data_size |-> files[fi].height * files[fi].width * (24 \div 8)]
            /\ outdir' = put_file(outdir, files[fi].name, <<>>)
            /\ pc' = "opened"
            /\ UNCHANGED <<fi, log>>
    /\ UNCHANGED <<deltaVars, bitVars, lineVars, err, files, output, alpha_output,
                   y, c, nlines>>

\* write_metadata(stream, ...), then pack creates its BitStreamWriter on the file
EncHeader ==
    /\ pc = "opened"
    /\ LET hd == write_metadata(meta.width, meta.height, meta.bpp, meta.data_size)
       IN IF hd.err # ""
          THEN /\ EndFile(hd.err, 0)
               /\ UNCHANGED <<wr, outdir, y, c, nlines>>
          ELSE /\ wr' = [BitStreamWriter EXCEPT !.stream = hd.bytes]
               /\ outdir' = put_file(outdir, files[fi].name, hd.bytes)
               /\ y' = 0
               /\ c' = 0
               /\ nlines' = 0
               /\ pc' = "packing"
               /\ UNCHANGED <<fi, log>>
    /\ UNCHANGED <<deltaVars, rd, calls, results, lineVars, err, files, meta,
                   output, alpha_output>>

\* pack: one pass of the loops over y and c
EncLine ==
    /\ pc = "packing"
    /\ y < meta.height
    /\ IF pack_line(wr, files[fi], y, c).err # ""
       THEN /\ EndFile(pack_line(wr, files[fi], y, c).err, nlines)
            /\ UNCHANGED <<wr, outdir, nlines, y, c>>
       ELSE /\ wr' = pack_line(wr, files[fi], y, c).w
            /\ outdir' = put_file(outdir, files[fi].name, wr'.stream)
            /\ nlines' = nlines + 1
            /\ c' = IF c + 1 < channels_of(meta.bpp) THEN c + 1 ELSE 0
            /\ y' = IF c + 1 < channels_of(meta.bpp) THEN y ELSE y + 1
            /\ UNCHANGED <<pc, fi, log>>
    /\ UNCHANGED <<deltaVars, rd, calls, results, lineVars, err, files,
                   meta, output, alpha_output>>

\* pack: bit_stream.flush(), the file is closed, the next file
EncFlush ==
    /\ pc = "packing"
    /\ y = meta.height
    /\ wr' = flush(wr)
    /\ outdir' = put_file(outdir, files[fi].name, wr'.stream)
    /\ EndFile("converted", nlines)
    /\ UNCHANGED <<deltaVars, rd, calls, results, lineVars, err, files, meta,
                   output, alpha_output, y, c, nlines>>

NextEncode == EncOpen \/ EncHeader \/ EncLine \/ EncFlush

SpecEncode == InitEncode /\ [][NextEncode]_vars

----------------------------------------------------------------------------
(* Properties                                                              *)

\* C1: decoding the symbol encode_delta(c, p) through the delta table with the
\* same previous pixel p gives back the pixel c.
C1_DeltaRoundTrip == pc = "decoded" => out = curr

\* C10: every table entry is a byte, and for a fixed previous pixel the map
\* symbol -> pixel is one-to-one and onto 0..255.
C10_TableBijective ==
    pc = "looked_up" =>
        /\ out \in Byte
        /\ \A j \in Byte : j # curr => delta_table(j, prev) # out
        /\ \E j \in Byte : delta_table(j, prev) = curr

\* a lookup in the mirrored half (prev >= 128), on the even branch at 2 * m = j
C10_Witness == pc = "looked_up" /\ prev = 200 /\ curr = 110 /\ out = 255

\* the low num_bits bits of value, most significant first
LowBits(value, num_bits) ==
    [i \in 1 .. num_bits |-> (value \div Pow2(num_bits - i)) % 2]

\* the bits a sequence of write_bits calls is meant to append
RECURSIVE AllBits(_)
AllBits(cs) ==
    IF cs = <<>> THEN <<>>
    ELSE LowBits(Head(cs)[1], Head(cs)[2]) \o AllBits(Tail(cs))

\* bits padded with zero bits to whole bytes, as bytes
BytesOf(bits) ==
    [k \in 1 .. ((Len(bits) + 7) \div 8) |->
        LET bit(i) == IF 8 * (k - 1) + i <= Len(bits) THEN bits[8 * (k - 1) + i] ELSE 0
        IN 128 * bit(1) + 64 * bit(2) + 32 * bit(3) + 16 * bit(4)
           + 8 * bit(5) + 4 * bit(6) + 2 * bit(7) + bit(8)]

\* C8: after flush the stream is the MSB-first concatenation of the low num_bits
\* bits of every value, zero padded, and get_bits in the same order returns
\* value mod 2^num_bits.
C8_WriterKeepsLowBits ==
    pc = "reading" =>
        /\ wr.stream = BytesOf(AllBits(calls))
        /\ \A i \in 1 .. Len(results) : results[i] = calls[i][1] % Pow2(calls[i][2])

\* C2: get_count reads back the count given to write_count and consumes exactly
\* the bits write_count wrote.
C2_CountRoundTrip ==
    pc \in {"count_read", "count_error"} =>
        /\ pc = "count_read"
        /\ results = <<curr>>
        /\ 8 * rd.pos - rd.buffer_size = calls[1][2] + calls[2][2]

\* C3: fill_line(width) on the bytes of delta_encode_line, write_line and flush
\* returns the row that was encoded.
C3_LineRoundTrip ==
    pc \in {"filled", "fill_error"} => (pc = "filled" /\ line = row)

\* C9: after each token of fill_line the write cursor is within the row, so a
\* returned row was covered exactly.
C9_CursorWithinWidth ==
    pc \in {"filling", "filled"} => (0 <= dst /\ dst <= width)

\* C7: once the failure of a conversion has been handled, no output file for
\* that input exists in the output directory.
C7_NoOutputAfterFailure ==
    \A i \in 1 .. Len(log) :
        log[i].result \notin {"converted", "skipped", "invalid"} =>
            ~(\E f \in outdir : f.name = files[i].name)

\* C4: read_metadata returns None and raises nothing when fewer than 12 bytes
\* are available or the bytes at offsets 4..6 are not "GWD".
C4_NotAHeaderIsNone ==
    (pc \in {"meta_read", "meta_error"}
     /\ (Len(rd.data) < 12 \/ SubSeq(rd.data, 5, 7) # <<71, 87, 68>>))
        => (pc = "meta_read" /\ meta = None)

\* the byte at absolute offset 4 + payloadSize of the current file is 0x01
FlagIsOne ==
    /\ 4 + meta.data_size < Len(files[fi].data)
    /\ files[fi].data[4 + meta.data_size + 1] = 1

\* the flag byte is followed by 12 bytes with the magic, bpp 8 and the
\* width and height of the primary image
AlphaHeaderValid ==
    LET p == 4 + meta.data_size + 1
        d == files[fi].data
    IN /\ p + 12 <= Len(d)
       /\ SubSeq(d, p + 5, p + 7) = <<71, 87, 68>>
       /\ 256 * d[p + 8] + d[p + 9] = meta.width
       /\ 256 * d[p + 10] + d[p + 11] = meta.height
       /\ d[p + 12] = 8

\* every pixel of the output array has n channels
Channels(n) ==
    \A yy \in DOMAIN output : \A xx \in DOMAIN output[yy] : Len(output[yy][xx]) = n

\* C5, the result of unpack for a 24bpp image: 4 channels when the flag is 0x01
\* and a matching 8bpp header follows, 3 channels when the flag is not 0x01
C5_ChannelsOfResult ==
    (pc = "unpacked" /\ meta.bpp = 24) =>
        /\ (FlagIsOne /\ AlphaHeaderValid) => Channels(4)
        /\ ~FlagIsOne => Channels(3)

\* C5, the merge: the first three channels are the primary channels unchanged
\* and the fourth is 255 minus the decoded alpha plane
C5_MergeStep ==
    (pc = "alpha" /\ pc' = "unpacked") =>
        \A yy \in DOMAIN output : \A xx \in DOMAIN output[yy] :
            /\ SubSeq(output'[yy][xx], 1, 3) = output[yy][xx]
            /\ output'[yy][xx][4] = 255 - alpha_output[yy][xx]

\* C5, a flag other than 0x01 or no flag: unpack returns the primary image, no
\* exception is raised
C5_NoFlagStep ==
    (pc = "primary" /\ y = meta.height /\ meta.bpp = 24 /\ ~FlagIsOne) =>
        (pc' = "unpacked" /\ output' = output)

\* C5: unpack of a 24bpp image returns the three primary channels plus the
\* inverted alpha plane when flag 0x01 and a matching 8bpp header follow the
\* payload, and the 3-channel primary image, without error, when the flag byte
\* is not 0x01 or is absent.
C5_AlphaSubImage ==
    /\ []C5_ChannelsOfResult
    /\ [][C5_MergeStep]_vars
    /\ [][C5_NoFlagStep]_vars

\* an image was returned with a fourth channel 255 - 3 from an alpha literal 3
C5_Witness ==
    /\ pc = "unpacked"
    /\ meta.bpp = 24
    /\ FlagIsOne
    /\ AlphaHeaderValid
    /\ Channels(4)
    /\ output[1][1][4] = 252

\* C6: a file whose header carries a bpp other than 8 or 24 ends in the
\* unsupported-format error (ValueError), with no scanline decoded and no
\* image saved.
C6_UnsupportedBppRejected ==
    \A i \in 1 .. Len(log) :
        (/\ files[i].ext = "gwd"
         /\ read_metadata(files[i].data, 0).err = ""
         /\ read_metadata(files[i].data, 0).meta # None
         /\ read_metadata(files[i].data, 0).meta.bpp \notin {8, 24})
        => (/\ log[i].result = "ValueError"
            /\ log[i].lines = 0
            /\ ~(\E f \in outdir : f.name = files[i].name))

====
